---- MODULE Spec2Model ----
(***************************************************************************)
(* A model of blade's builtin_tools.py: the command-line boundary (main,   *)
(* parse_command_line) and the three archive composers generate_package,   *)
(* generate_one_jar and generate_python_binary.                            *)
(*                                                                         *)
(* Strings are sequences of tokens ("pkg", "/", "mod", ".py"), so that     *)
(* endswith, startswith, find, dirname, basename, split, relpath and       *)
(* fnmatch are computed on the text as the code computes them.  An archive *)
(* is the sequence of entries written to it, in write order; an entry is   *)
(* its name, its bytes and the timestamp the writer stamps on it.          *)
(* The code is Python 2 (len(x) / 2 is an integer, str is bytes).          *)
(***************************************************************************)
EXTENDS Integers, Sequences, FiniteSets, TLC

VARIABLES
    argv,               \* sys.argv
    now,                \* the latest reading of the wall clock
    run,                \* 1 for the first invocation, 2 for its repetition
    prev,               \* what the first invocation left behind
    pc,                 \* position in main and in the running tool
    name,               \* main: name
    options,            \* main: options, a dict from names to values
    args,               \* main: args
    ret,                \* main: ret (0 stands for None)
    raised,             \* the exception in flight, "none" if there is none
    log,                \* what console.error was called with
    stderr,             \* tracebacks printed by the interpreter itself
    exit_code,          \* the process exit code, -1 while running
    zip,                \* entries written to the output archive so far
    zip_state,          \* "none", "open" or "closed"
    idx,                \* index of the current loop over sources
    dirs,               \* generate_python_binary: dirs
    dirs_with_init_py,  \* generate_python_binary: dirs_with_init_py
    jar_path_set,       \* generate_one_jar: jar_path_set
    zip_content,        \* generate_python_binary: zip_content
    outfile,            \* chunks of the output path once it is (re)written as a file
    mode,               \* permission bits of the output path, 0 while it is absent
    sidecar,            \* generate_tar_package: the '<path>.MANIFEST' file
    manifest,           \* archive_package_sources: manifest
    targets,            \* generate_resource_index, generate_java_resource: targets
    returncode          \* generate_java_jar: the status of the jar command, -1 before it ends

vars == <<argv, now, run, prev, pc, name, options, args, ret, raised, log, stderr,
          exit_code, zip, zip_state, idx, dirs, dirs_with_init_py, jar_path_set,
          zip_content, outfile, mode, sidecar, manifest, targets, returncode>>

----------------------------------------------------------------------------
(* Bounds of the model. *)

\* most sources after the options of python_binary
MaxPySources == 3
\* most dependency archives after the main archive of java_onejar
MaxDeps == 2
\* most words after the output path of package
MaxPkgWords == 4
\* latest reading of the clock, counted in stamps from the first invocation's start
MaxClock == 1

----------------------------------------------------------------------------
(* str methods and os.path on token sequences. *)

StartsWith(s, p) == Len(p) <= Len(s) /\ SubSeq(s, 1, Len(p)) = p

EndsWith(s, p) == Len(p) <= Len(s) /\ SubSeq(s, Len(s) - Len(p) + 1, Len(s)) = p

Contains(s, p) == \E k \in 1..(Len(s) - Len(p) + 1) : SubSeq(s, k, k + Len(p) - 1) = p

\* str.find(tok): the first position of tok, 0 when absent (Python's -1)
Find(s, tok) ==
    IF \E k \in 1..Len(s) : s[k] = tok
    THEN CHOOSE k \in 1..Len(s) : s[k] = tok /\ \A j \in 1..(k - 1) : s[j] # tok
    ELSE 0

\* str.rfind('/') + 1
RFindSlash(s) ==
    IF \E k \in 1..Len(s) : s[k] = "/"
    THEN CHOOSE k \in 1..Len(s) : s[k] = "/" /\ \A j \in (k + 1)..Len(s) : s[j] # "/"
    ELSE 0

RECURSIVE RStripSlash(_)
RStripSlash(s) ==
    IF s # <<>> /\ s[Len(s)] = "/" THEN RStripSlash(SubSeq(s, 1, Len(s) - 1)) ELSE s

\* posixpath.dirname
Dirname(p) ==
    LET head == SubSeq(p, 1, RFindSlash(p))
    IN  IF head # <<>> /\ (\E k \in 1..Len(head) : head[k] # "/")
        THEN RStripSlash(head)
        ELSE head

\* posixpath.basename
Basename(p) == SubSeq(p, RFindSlash(p) + 1, Len(p))

\* posixpath.join of two parts
PathJoin(a, b) ==
    IF StartsWith(b, <<"/">>) THEN b
    ELSE IF a = <<>> \/ EndsWith(a, <<"/">>) THEN a \o b
    ELSE a \o <<"/">> \o b

\* str.split(sep) for a one-token separator
RECURSIVE Split(_, _)
Split(s, sep) ==
    LET k == Find(s, sep)
    IN  IF k = 0 THEN <<s>>
        ELSE <<SubSeq(s, 1, k - 1)>> \o Split(SubSeq(s, k + 1, Len(s)), sep)

\* sep.join(parts)
RECURSIVE JoinWith(_, _)
JoinWith(parts, sep) ==
    IF parts = <<>> THEN <<>>
    ELSE IF Len(parts) = 1 THEN parts[1]
    ELSE parts[1] \o sep \o JoinWith(Tail(parts), sep)

\* length of the longest common prefix of two component lists
RECURSIVE CommonPrefixLen(_, _)
CommonPrefixLen(a, b) ==
    IF a # <<>> /\ b # <<>> /\ Head(a) = Head(b)
    THEN 1 + CommonPrefixLen(Tail(a), Tail(b))
    ELSE 0

\* posixpath.relpath for two normalised paths relative to the same directory
RelPath(path, start) ==
    LET sl == Split(start, "/")
        pl == Split(path, "/")
        k  == CommonPrefixLen(sl, pl)
        up == [j \in 1..(Len(sl) - k) |-> <<"..">>]
        rl == up \o SubSeq(pl, k + 1, Len(pl))
    IN  IF rl = <<>> THEN <<".">> ELSE JoinWith(rl, <<"/">>)

\* fnmatch.fnmatchcase: "*" matches any run of text, anything else itself
RECURSIVE FnMatch(_, _)
FnMatch(s, pat) ==
    IF pat = <<>> THEN s = <<>>
    ELSE IF Head(pat) = "*"
         THEN \E k \in 0..Len(s) : FnMatch(SubSeq(s, k + 1, Len(s)), Tail(pat))
         ELSE s # <<>> /\ Head(s) = Head(pat) /\ FnMatch(Tail(s), Tail(pat))

\* str.lower and str.upper on the tokens that carry letters of either case
LowerTok(t) ==
    CASE t = "META-INF" -> "meta-inf"
      [] t = "MANIFEST" -> "manifest"
      [] t = ".MF"      -> ".mf"
      [] t = "App"      -> "app"
      [] t = "Dep"      -> "dep"
      [] t = "Boot"     -> "boot"
      [] OTHER          -> t

UpperTok(t) ==
    CASE t = "meta-inf"    -> "META-INF"
      [] t = "manifest"    -> "MANIFEST"
      [] t = ".mf"         -> ".MF"
      [] t = "App"         -> "APP"
      [] t = "Dep"         -> "DEP"
      [] t = "Boot"        -> "BOOT"
      [] t = "app"         -> "APP"
      [] t = "dep"         -> "DEP"
      [] t = "boot"        -> "BOOT"
      [] t = "build"       -> "BUILD"
      [] t = "a"           -> "A"
      [] t = "idx"         -> "IDX"
      [] t = "lib"         -> "LIB"
      [] t = "main"        -> "MAIN"
      [] t = "doc"         -> "DOC"
      [] t = "com"         -> "COM"
      [] t = "config"      -> "CONFIG"
      [] t = "data"        -> "DATA"
      [] t = "notes"       -> "NOTES"
      [] t = ".properties" -> ".PROPERTIES"
      [] t = ".class"      -> ".CLASS"
      [] t = ".txt"        -> ".TXT"
      [] t = ".jar"        -> ".JAR"
      [] OTHER             -> t

Lower(s) == [k \in 1..Len(s) |-> LowerTok(s[k])]

Upper(s) == [k \in 1..Len(s) |-> UpperTok(s[k])]

SeqsUpTo(S, n) == UNION {[1..k -> S] : k \in 0..n}

----------------------------------------------------------------------------
(* The files the orchestrator hands to the tools. *)

\* bytes of a plain file: every path holds content of its own
ReadFile(path) == <<"bytes-of:">> \o path

\* ZipFile.read(name) of archive lib: every member holds content of its own
ZipRead(lib, member) == <<"bytes-of:">> \o lib \o <<"!">> \o member

\* blade_util.md5sum_file: a digest that tells different contents apart
Md5sumFile(path) == <<"md5:">> \o ReadFile(path)

\* the zip archives that exist
Archives ==
    { <<"e", ".egg">>, <<"w", ".whl">>, <<"boot", ".jar">>, <<"boot2", ".jar">>,
      <<"build", "/", "app", ".jar">>, <<"build", "/", "fat", ".jar">>,
      <<"build", "/", "test", ".jar">>,
      <<"a", "/", "dep", ".jar">>, <<"b", "/", "dep", ".jar">>, <<"c", "/", "util", ".jar">> }

\* the paths that exist as files
ExistingFiles ==
    { <<"a", ".txt">>, <<"b", ".txt">>,
      <<"a", "/", "pkg", "/", "mod", ".py">>, <<"a", "/", "top", ".py">>,
      <<"b", "/", "pkg", "/", "mod", ".py">>,
      <<"b", "/", "pkg", "/", "__init__", ".py">>,
      <<"b", "/", "pkg", "/", "sub", "/", "deep", ".py">>,
      <<"a", ".pylib">>, <<"b", ".pylib">>,
      <<"build", "/", "app", "__classes__", ".jar">> }
    \cup Archives

\* eval(pylib.read()) of a library descriptor written by generate_python_library
ReadPylib(libname) ==
    LET mk(base, paths) ==
            [base_dir |-> base,
             srcs |-> [k \in 1..Len(paths) |-> <<paths[k], Md5sumFile(paths[k])>>]]
    IN  CASE libname = <<"a", ".pylib">> ->
               mk(<<"a">>, << <<"a", "/", "pkg", "/", "mod", ".py">>,
                              <<"a", "/", "top", ".py">> >>)
          [] libname = <<"b", ".pylib">> ->
               mk(<<"b">>, << <<"b", "/", "pkg", "/", "mod", ".py">>,
                              <<"b", "/", "pkg", "/", "__init__", ".py">>,
                              <<"b", "/", "pkg", "/", "sub", "/", "deep", ".py">> >>)

\* ZipFile.namelist() of the archives that exist
NameList(lib) ==
    CASE lib = <<"e", ".egg">> ->
           << <<"EGG-INFO", "/", "PKG-INFO">>,
              <<"epkg", "/", "e", ".py">>,
              <<"epkg", "/", "e", ".pyc">>,
              <<"pkg", "/", "mod", ".py">> >>
      [] lib = <<"w", ".whl">> ->
           << <<"w", ".dist-info", "/", "METADATA">>,
              <<"__init__", ".py">>,
              <<"pkg", "/", "mod", ".py">>,
              <<"wpkg", "/", "sub", "/", "w", ".py">> >>
      [] lib = <<"boot", ".jar">> ->
           << <<"META-INF", "/", "MANIFEST", ".MF">>,
              <<"com", "/", "Boot", ".class">>,
              <<"boot", ".properties">> >>
      [] lib = <<"boot2", ".jar">> ->
           << <<"com", "/", "Boot", ".class">>,
              <<"config", ".properties">>,
              <<"doc", "/", "manifest", ".mf">>,
              <<"meta-inf", "/", "manifest", ".mf">> >>
      [] lib = <<"build", "/", "app", ".jar">> ->
           << <<"META-INF", "/", "MANIFEST", ".MF">>,
              <<"App", ".class">>,
              <<"config", ".properties">>,
              <<"data", ".txt">> >>
      [] lib = <<"build", "/", "fat", ".jar">> ->
           << <<"config", ".properties">>,
              <<"lib", "/", "dep", ".jar">>,
              <<"doc", "/", "manifest", ".mf">> >>
      [] lib = <<"a", "/", "dep", ".jar">> ->
           << <<"meta-inf", "/", "notes", ".txt">>,
              <<"config", ".properties">>,
              <<"data", ".txt">> >>
      [] lib = <<"b", "/", "dep", ".jar">> ->
           << <<"Dep", ".class">>,
              <<"data", ".txt">>,
              <<"boot", ".properties">> >>
      [] lib = <<"c", "/", "util", ".jar">> ->
           << <<"data", ".txt">>,
              <<"main", "/", "app", ".jar">> >>
      [] lib = <<"build", "/", "test", ".jar">> ->
           << <<"com", "/", "Foo", "Test", ".class">>,
              <<"com", "/", "Foo", "$", "Test", ".class">>,
              <<"Test", ".class">>,
              <<"com", "/", "Helper", ".class">>,
              <<"com", "/", "x", "/", "Bar", "Test", ".class">>,
              <<"data", ".txt">> >>

PySources ==
    { <<"a", ".pylib">>, <<"b", ".pylib">>, <<"e", ".egg">>, <<"w", ".whl">>,
      <<"r", ".txt">> }

ExclusionStrings ==
    { <<>>,
      <<"top", ".py">>,
      <<"*", "/", "sub", "/", "*", ",", "epkg", "/", "*">> }

BootJars == { <<"boot", ".jar">>, <<"boot2", ".jar">> }

MainJars == { <<"build", "/", "app", ".jar">>, <<"build", "/", "fat", ".jar">> }

DepJars ==
    { <<"a", "/", "dep", ".jar">>, <<"b", "/", "dep", ".jar">>,
      <<"c", "/", "util", ".jar">> }

PkgPaths ==
    { <<"out", ".zip">>, <<"out", ".", "tar">>, <<"out", ".", "tgz">>, <<"out", ".dat">> }

PkgWords == { <<"a", ".txt">>, <<"b", ".txt">>, <<"x">>, <<"y">> }

----------------------------------------------------------------------------
(* Command lines. *)

Script == <<"builtin_tools", ".py">>

Opt(key, value) == <<"--", key, "=">> \o value

PyCmdLines ==
    { <<Script, <<"python_binary">>,
        Opt("pybin", <<"out">>), Opt("basedir", <<"base">>),
        Opt("exclusions", e), Opt("mainentry", <<"app", ".", "main">>)>> \o srcs :
      e \in ExclusionStrings, srcs \in SeqsUpTo(PySources, MaxPySources) }

OneJarCmdLines ==
    { <<Script, <<"java_onejar">>,
        Opt("onejar", <<"out", ".jar">>), Opt("main_class", <<"App">>),
        Opt("bootjar", b)>> \o <<m>> \o deps :
      b \in BootJars, m \in MainJars, deps \in SeqsUpTo(DepJars, MaxDeps) }

PkgCmdLines ==
    { <<Script, <<"package">>, p>> \o words :
      p \in PkgPaths, words \in SeqsUpTo(PkgWords, MaxPkgWords) }

BadCmdLines ==
    { <<Script>>,
      <<Script, <<"bogus">>, <<"--", "verbose">>>>,
      <<Script, <<"package">>>>,
      <<Script, <<"package">>, Opt("path", <<"out", ".zip">>), <<"a", ".txt">>, <<"x">>>>,
      <<Script, <<"java_onejar">>,
        Opt("onejar", <<"out", ".jar">>), Opt("main_class", <<"App">>),
        Opt("bootjar", <<"boot", ".jar">>)>>,
      <<Script, <<"python_binary">>, Opt("pybin", <<"out">>), <<"a", ".pylib">>>> }

\* command lines of the other tools of the table
TestOptions ==
    { <<Opt("jacocoagent", j), Opt("packages_under_test", p)>> :
      j \in { <<>>, <<"agent", ".jar">> }, p \in { <<>>, <<"p", ".", "q", ":", "r">> } }

TestJarLists ==
    { <<>>, << <<"build", "/", "test", ".jar">> >>,
      << <<"build", "/", "test", ".jar">>, <<"a", "/", "dep", ".jar">> >>,
      << <<"build", "/", "none", ".jar">> >>, << <<"a", ".txt">> >> }

ResourceSources == { <<"a", "/", "top", ".py">>, <<"a", ".txt">>, <<"none", ".txt">> }

OtherCmdLines ==
    { <<Script, <<"scm">>, Opt("scm", <<"out", ".c">>), Opt("revision", <<"r1">>),
        Opt("url", <<"http://u">>), Opt("profile", <<"release">>),
        Opt("compiler", <<"gcc">>)>> }
    \cup { <<Script, <<"securecc_object">>>> \o words :
           words \in { << <<"out", ".o">>, <<"a", ".txt">> >>, << <<"out", ".o">> >>,
                       << <<"out", ".o">>, <<"none", ".o">> >>,
                       << <<"b", ".txt">>, <<"a", ".txt">> >> } }
    \cup { <<Script, <<"resource_index">>, <<"idx">>, <<"a">>, <<"out", ".h">>, <<"out", ".c">>>>
           \o srcs : srcs \in SeqsUpTo(ResourceSources, 2) }
    \cup { <<Script, <<"resource_index">>, <<"idx">>, <<"a">>, <<"out", ".h">>>> }
    \cup { <<Script, <<"java_jar">>, <<"jar">>, <<"out", ".jar">>>> \o words :
           words \in { <<>>, << <<"a", ".txt">> >>, << <<"a", ".txt">>, <<"a", "/", "top", ".py">> >>,
                       << <<"build", "/", "app", "__classes__", ".jar">> >>,
                       << <<"build", "/", "app", "__classes__", ".jar">>, <<"a", ".txt">> >>,
                       << <<"build", "/", "none", "__classes__", ".jar">> >> } }
    \cup { <<Script, <<"java_resource">>>> \o words :
           words \in { <<>>, << <<"t1">> >>, << <<"t1">>, <<"a", ".txt">> >>,
                       << <<"t1">>, <<"t2">>, <<"a", ".txt">>, <<"b", ".txt">> >>,
                       << <<"t1">>, <<"t2">>, <<"a", ".txt">>, <<"none", ".txt">> >>,
                       << <<"t1">>, <<"t1">>, <<"a", ".txt">>, <<"b", ".txt">> >> } }
    \cup { <<Script, <<"java_test">>, Opt("script", <<"out", ".sh">>),
             Opt("main_class", <<"Main">>)>> \o o \o jars :
           o \in TestOptions, jars \in TestJarLists }
    \cup { <<Script, <<"scala_test">>, Opt("script", <<"out", ".sh">>),
             Opt("java", <<"java">>), Opt("scala", <<"/", "opt", "/", "scala">>)>> \o o \o jars :
           o \in TestOptions, jars \in TestJarLists }
    \cup { <<Script, <<"java_fatjar">>>> \o words :
           words \in { <<>>, << <<"out", ".fat", ".jar">>, <<"a", "/", "dep", ".jar">> >> } }
    \cup { <<Script, <<"java_binary">>>> \o words :
           words \in { << <<"out", ".bin">> >>,
                       << <<"out", ".bin">>, <<"build", "/", "app", ".jar">> >> } }
    \cup { <<Script, <<"shell_test">>>> \o words :
           words \in { <<>>, << <<"out", ".sh">> >>,
                       << <<"out", ".sh">>, <<"a", ".txt">>, <<"b", ".txt">> >> } }
    \cup { <<Script, <<"shell_testdata">>>> \o words :
           words \in { <<>>, << <<"out", ".txt">> >>, << <<"out", ".txt">>, <<"a", ".txt">> >>,
                       << <<"out", ".txt">>, <<"a", ".txt">>, <<"b", ".txt">>, <<"x">>, <<"y">> >> } }
    \cup { <<Script, <<"python_library">>, Opt("pylib", <<"out", ".pylib">>),
             Opt("basedir", <<"a">>)>> \o srcs :
           srcs \in { <<>>, << <<"a", "/", "top", ".py">> >>,
                      << <<"a", "/", "pkg", "/", "mod", ".py">>, <<"a", "/", "top", ".py">> >>,
                      << <<"a", "/", "none", ".py">> >> } }

CmdLines ==
    PyCmdLines \cup OneJarCmdLines \cup PkgCmdLines \cup OtherCmdLines \cup BadCmdLines

----------------------------------------------------------------------------
(* parse_command_line and the tool table. *)

EmptyDict == [k \in {} |-> <<>>]

DictSet(d, key, value) ==
    [k \in DOMAIN d \cup {key} |-> IF k = key THEN value ELSE d[k]]

RECURSIVE ParseFrom(_, _, _)
ParseFrom(av, opts, pos) ==
    IF av = <<>> THEN [options |-> opts, args |-> pos]
    ELSE LET arg == Head(av)
             eq  == Find(arg, "=")
         IN  IF StartsWith(arg, <<"--">>)
             THEN IF eq = 0
                  THEN ParseFrom(Tail(av), opts, Append(pos, arg))
                  ELSE ParseFrom(Tail(av),
                                 DictSet(opts, SubSeq(arg, 2, eq - 1),
                                         SubSeq(arg, eq + 1, Len(arg))),
                                 pos)
             ELSE ParseFrom(Tail(av), opts, Append(pos, arg))

parse_command_line(av) == ParseFrom(av, EmptyDict, <<>>)

\* the keys of _BUILTIN_TOOLS
BuiltinTools ==
    { <<"scm">>, <<"package">>, <<"securecc_object">>, <<"resource_index">>,
      <<"java_jar">>, <<"java_resource">>, <<"java_test">>, <<"java_fatjar">>,
      <<"java_onejar">>, <<"java_binary">>, <<"scala_test">>, <<"shell_test">>,
      <<"shell_testdata">>, <<"python_library">>, <<"python_binary">> }

\* the keyword parameters, other than args, of the tools
Params(tool) ==
    CASE tool = <<"python_binary">> ->
           { <<"pybin">>, <<"basedir">>, <<"exclusions">>, <<"mainentry">> }
      [] tool = <<"java_onejar">> -> { <<"onejar">>, <<"main_class">>, <<"bootjar">> }
      [] tool = <<"scm">> ->
           { <<"scm">>, <<"revision">>, <<"url">>, <<"profile">>, <<"compiler">> }
      [] tool = <<"java_test">> ->
           { <<"script">>, <<"main_class">>, <<"jacocoagent">>, <<"packages_under_test">> }
      [] tool = <<"scala_test">> ->
           { <<"script">>, <<"java">>, <<"scala">>, <<"jacocoagent">>,
             <<"packages_under_test">> }
      [] tool = <<"python_library">> -> { <<"pylib">>, <<"basedir">> }
      [] OTHER -> {}

\* where the body of each tool starts
FirstPc(tool) ==
    CASE tool = <<"python_binary">> -> "py_open"
      [] tool = <<"java_onejar">> -> "oj_open"
      [] tool = <<"package">> -> "pkg_start"
      [] OTHER -> tool[1]

----------------------------------------------------------------------------
(* zipfile: what the two writers put into the archive. *)

\* ZipFile.write(filename, arcname): the file's bytes under the file's own mtime
ZipWrite(filename, arcname) ==
    [name |-> arcname, data |-> ReadFile(filename), date |-> [src |-> "mtime", t |-> 0]]

\* ZipFile.writestr(arcname, bytes): the bytes under the current time
ZipWriteStr(arcname, bytes, clock) ==
    [name |-> arcname, data |-> bytes, date |-> [src |-> "clock", t |-> clock]]

\* time.localtime() at n successive writestr calls: each call reads the clock
\* anew, at or after the reading before it
Stamps(n) ==
    {s \in [1..n -> now..MaxClock] : \A i \in 1..(n - 1) : s[i] <= s[i + 1]}

\* n readings of a clock that stands still
Steady(n) == [k \in 1..n |-> now]

\* the clock after the readings s
LastRead(s) == IF s = <<>> THEN now ELSE s[Len(s)]

\* octal 0644: a file created by open(path, 'w') under umask 022
ModeCreated == 420

\* open(path, 'w'): creates the file, or truncates it and keeps its mode
Created(m) == IF m = 0 THEN ModeCreated ELSE m

Names(entries) == {entries[k].name : k \in 1..Len(entries)}

Count(entries, n) == Cardinality({k \in 1..Len(entries) : entries[k].name = n})

----------------------------------------------------------------------------
(* generate_python_binary and its helpers. *)

InitPy == <<"__init__", ".py">>

_is_python_excluded_path(filename, exclusions) ==
    \E k \in 1..Len(exclusions) : FnMatch(filename, exclusions[k])

\* a walk that stops at the entry's own directory
DirChainOnce(dir) == IF dir = <<>> THEN {} ELSE {dir}

\* the directories the while loop of _update_init_py_dirs walks through
RECURSIVE DirChain(_)
DirChain(dir) == IF dir = <<>> THEN {} ELSE {dir} \cup DirChain(Dirname(dir))

_update_init_py_dirs(arcname, st) ==
    [st EXCEPT
        !.dirs_with_init_py =
            IF Basename(arcname) = InitPy THEN @ \cup {Dirname(arcname)} ELSE @,
        !.dirs = @ \cup DirChain(Dirname(arcname))]

RECURSIVE PylibLoop(_, _, _, _)
PylibLoop(st, srcs, base_dir, exclusions) ==
    IF srcs = <<>> THEN st
    ELSE LET libsrc  == Head(srcs)[1]
             arcname == RelPath(libsrc, base_dir)
             st1 == IF _is_python_excluded_path(arcname, exclusions) THEN st
                    ELSE [_update_init_py_dirs(arcname, st) EXCEPT
                             !.zip = Append(@, ZipWrite(libsrc, arcname))]
         IN  PylibLoop(st1, Tail(srcs), base_dir, exclusions)

_pybin_add_pylib(st, libname, exclusions) ==
    LET data == ReadPylib(libname)
    IN  PylibLoop(st, data.srcs, data.base_dir, exclusions)

EggFilter(member) ==
    ~StartsWith(member, <<"EGG-INFO">>) /\ ~EndsWith(member, <<".pyc">>)

WhlFilter(member) == ~Contains(member, <<".dist-info", "/">>)

\* clocks: the readings of the clock, one for each entry still to be written
RECURSIVE ZipLoop(_, _, _, _, _, _, _)
ZipLoop(st, libname, names, kind, exclusions, track, clocks) ==
    IF names = <<>> THEN st
    ELSE LET member == Head(names)
             keep == (IF kind = "egg" THEN EggFilter(member) ELSE WhlFilter(member))
                     /\ ~_is_python_excluded_path(member, exclusions)
             st0 == IF track THEN _update_init_py_dirs(member, st) ELSE st
             st1 == IF keep
                    THEN [st0 EXCEPT
                             !.zip = Append(@, ZipWriteStr(member, ZipRead(libname, member),
                                                           Head(clocks)))]
                    ELSE st
         IN  ZipLoop(st1, libname, Tail(names), kind, exclusions, track,
                     IF keep THEN Tail(clocks) ELSE clocks)

_pybin_add_zip(st, libname, kind, exclusions, track, clocks) ==
    ZipLoop(st, libname, NameList(libname), kind, exclusions, track, clocks)

_pybin_add_egg(st, libname, exclusions, clocks) ==
    _pybin_add_zip(st, libname, "egg", exclusions, FALSE, clocks)

_pybin_add_whl(st, libname, exclusions, clocks) ==
    _pybin_add_zip(st, libname, "whl", exclusions, TRUE, clocks)

\* character order of the tokens that occur in directory names
TokRank(t) ==
    CASE t = "."    -> 1
      [] t = ".."   -> 2
      [] t = "/"    -> 3
      [] t = "epkg" -> 4
      [] t = "pkg"  -> 5
      [] t = "sub"  -> 6
      [] t = "wpkg" -> 7
      [] OTHER      -> 8

RECURSIVE StrLess(_, _)
StrLess(a, b) ==
    IF a = <<>> THEN b # <<>>
    ELSE IF b = <<>> THEN FALSE
    ELSE IF Head(a) = Head(b) THEN StrLess(Tail(a), Tail(b))
    ELSE TokRank(Head(a)) < TokRank(Head(b))

\* sorted(set of strings)
RECURSIVE Sorted(_)
Sorted(S) ==
    IF S = {} THEN <<>>
    ELSE LET least == CHOOSE x \in S : \A y \in S \ {x} : StrLess(x, y)
         IN  <<least>> \o Sorted(S \ {least})

\* lines 523-527: the synthesized __init__.py entries, the root's last
InsertInitPy(missing, clocks) ==
    LET order == Sorted(missing)
    IN  [k \in 1..Len(order) |-> ZipWriteStr(PathJoin(order[k], InitPy), <<>>, clocks[k])]
        \o <<ZipWriteStr(InitPy, <<>>, clocks[Len(order) + 1])>>

\* lines 534-535
Bootstrap(mainentry) ==
    <<"#!/bin/sh\n\n", "PYTHONPATH=\"$0:$PYTHONPATH\" exec python -m \"">>
    \o mainentry \o <<"\" \"$@\"\n">>

Exclusions == Split(options[<<"exclusions">>], ",")

PyState == [zip |-> zip, dirs |-> dirs, dirs_with_init_py |-> dirs_with_init_py]

\* the output path before it is rewritten: nothing written yet
NoFile == <<>>

\* f.write(str) and f.write(zip_content): one chunk of the file each
TextChunk(text) == [kind |-> "text", text |-> text, entries |-> <<>>]

ArchiveChunk(entries) == [kind |-> "archive", text |-> <<>>, entries |-> entries]

----------------------------------------------------------------------------
(* main: lines 561-570. *)

\* what a tool leaves untouched while main runs
ToolIdle ==
    UNCHANGED <<zip, zip_state, idx, dirs, dirs_with_init_py, jar_path_set, zip_content,
                outfile, mode, sidecar, manifest, targets, returncode>>

Frame == UNCHANGED <<argv, run, prev>>

\* a step that does not read the clock
ClockUnread == UNCHANGED now

MainIdle == UNCHANGED <<name, options, args, log, stderr, exit_code>>

\* line 562 with no operation name: IndexError outside the try block
MainMissingName ==
    /\ pc = "main"
    /\ Len(argv) < 2
    /\ stderr' = Append(stderr, "IndexError")
    /\ exit_code' = 1
    /\ raised' = "IndexError"
    /\ pc' = "exit"
    /\ UNCHANGED <<name, options, args, ret, log>>
    /\ ToolIdle /\ Frame /\ ClockUnread

Parsed == parse_command_line(SubSeq(argv, 3, Len(argv)))

\* lines 562-565, _BUILTIN_TOOLS[name] raising KeyError
MainUnknownTool ==
    /\ pc = "main"
    /\ Len(argv) >= 2
    /\ argv[2] \notin BuiltinTools
    /\ name' = argv[2]
    /\ options' = Parsed.options
    /\ args' = Parsed.args
    /\ raised' = "KeyError"
    /\ pc' = "except"
    /\ UNCHANGED <<ret, log, stderr, exit_code>>
    /\ ToolIdle /\ Frame /\ ClockUnread

\* lines 562-565, the call raising TypeError for a missing or unexpected keyword
MainBadKeywords ==
    /\ pc = "main"
    /\ Len(argv) >= 2
    /\ argv[2] \in BuiltinTools
    /\ DOMAIN Parsed.options # Params(argv[2])
    /\ name' = argv[2]
    /\ options' = Parsed.options
    /\ args' = Parsed.args
    /\ raised' = "TypeError"
    /\ pc' = "except"
    /\ UNCHANGED <<ret, log, stderr, exit_code>>
    /\ ToolIdle /\ Frame /\ ClockUnread

\* lines 562-565, the tool entered
MainCallTool ==
    /\ pc = "main"
    /\ Len(argv) >= 2
    /\ argv[2] \in BuiltinTools
    /\ DOMAIN Parsed.options = Params(argv[2])
    /\ name' = argv[2]
    /\ options' = Parsed.options
    /\ args' = Parsed.args
    /\ pc' = FirstPc(argv[2])
    /\ UNCHANGED <<ret, raised, log, stderr, exit_code>>
    /\ ToolIdle /\ Frame /\ ClockUnread

\* the handler setting ret without reporting the failure
MainExceptSilent ==
    /\ pc = "except"
    /\ ret' = 1
    /\ pc' = "finish"
    /\ UNCHANGED <<name, options, args, raised, log, stderr, exit_code>>
    /\ ToolIdle /\ Frame /\ ClockUnread

\* lines 566-568
MainExcept ==
    /\ pc = "except"
    /\ ret' = 1
    /\ log' = Append(log, [tool |-> name, error |-> raised, trace |-> TRUE])
    /\ pc' = "finish"
    /\ UNCHANGED <<name, options, args, raised, stderr, exit_code>>
    /\ ToolIdle /\ Frame /\ ClockUnread

\* the archive handle a failed tool left open is a tarfile.TarFile
TarHandle == name = <<"package">> /\ args # <<>> /\ ~EndsWith(args[1], <<".zip">>)

\* lines 569-570 and the interpreter's end: the frame of a failed tool is
\* released, and ZipFile.__del__ closes the archive it left open; a TarFile
\* has no __del__ and stays unfinished
MainExit ==
    /\ pc = "finish"
    /\ exit_code' = (IF ret # 0 THEN ret ELSE 0)
    /\ zip_state' = (IF zip_state = "open" /\ ~TarHandle THEN "closed" ELSE zip_state)
    /\ pc' = "exit"
    /\ UNCHANGED <<name, options, args, ret, raised, log, stderr>>
    /\ UNCHANGED <<zip, idx, dirs, dirs_with_init_py, jar_path_set, zip_content,
                   outfile, mode, sidecar, manifest, targets, returncode>>
    /\ Frame /\ ClockUnread

----------------------------------------------------------------------------
(* generate_python_binary: lines 509-539. *)

PyIdle == UNCHANGED <<jar_path_set, sidecar, manifest, targets, returncode>>

\* lines 510-512
PyOpen ==
    /\ pc = "py_open"
    /\ zip' = <<>>
    /\ zip_state' = "open"
    /\ dirs' = {}
    /\ dirs_with_init_py' = {}
    /\ idx' = 1
    /\ outfile' = NoFile
    /\ mode' = Created(mode)
    /\ pc' = "py_loop"
    /\ UNCHANGED <<ret, raised, zip_content>>
    /\ PyIdle /\ MainIdle /\ Frame /\ ClockUnread

PyStep(st) ==
    /\ zip' = st.zip
    /\ dirs' = st.dirs
    /\ dirs_with_init_py' = st.dirs_with_init_py
    /\ idx' = idx + 1
    /\ UNCHANGED <<pc, ret, raised, zip_state, zip_content, outfile, mode>>
    /\ PyIdle /\ MainIdle /\ Frame

\* lines 513-515
PyAddPylib ==
    /\ pc = "py_loop"
    /\ idx <= Len(args)
    /\ EndsWith(args[idx], <<".pylib">>)
    /\ PyStep(_pybin_add_pylib(PyState, args[idx], Exclusions))
    /\ ClockUnread

\* lines 516-517
PyAddEgg ==
    /\ pc = "py_loop"
    /\ idx <= Len(args)
    /\ ~EndsWith(args[idx], <<".pylib">>)
    /\ EndsWith(args[idx], <<".egg">>)
    /\ LET n == Len(_pybin_add_egg(PyState, args[idx], Exclusions,
                                    Steady(Len(NameList(args[idx])))).zip) - Len(zip)
       IN  \E clocks \in Stamps(n) :
               /\ PyStep(_pybin_add_egg(PyState, args[idx], Exclusions, clocks))
               /\ now' = LastRead(clocks)

\* lines 518-519
PyAddWhl ==
    /\ pc = "py_loop"
    /\ idx <= Len(args)
    /\ ~EndsWith(args[idx], <<".pylib">>)
    /\ ~EndsWith(args[idx], <<".egg">>)
    /\ EndsWith(args[idx], <<".whl">>)
    /\ LET n == Len(_pybin_add_whl(PyState, args[idx], Exclusions,
                                    Steady(Len(NameList(args[idx])))).zip) - Len(zip)
       IN  \E clocks \in Stamps(n) :
               /\ PyStep(_pybin_add_whl(PyState, args[idx], Exclusions, clocks))
               /\ now' = LastRead(clocks)

\* an unknown source skipped instead of refused
PyUnknownTypeSkipped ==
    /\ pc = "py_loop"
    /\ idx <= Len(args)
    /\ ~EndsWith(args[idx], <<".pylib">>)
    /\ ~EndsWith(args[idx], <<".egg">>)
    /\ ~EndsWith(args[idx], <<".whl">>)
    /\ idx' = idx + 1
    /\ UNCHANGED <<pc, ret, raised, zip, zip_state, dirs, dirs_with_init_py, zip_content,
                   outfile, mode>>
    /\ PyIdle /\ MainIdle /\ Frame /\ ClockUnread

\* lines 520-521
PyUnknownType ==
    /\ pc = "py_loop"
    /\ idx <= Len(args)
    /\ ~EndsWith(args[idx], <<".pylib">>)
    /\ ~EndsWith(args[idx], <<".egg">>)
    /\ ~EndsWith(args[idx], <<".whl">>)
    /\ raised' = "AssertionError"
    /\ pc' = "except"
    /\ UNCHANGED <<ret, zip, zip_state, idx, dirs, dirs_with_init_py, zip_content,
                   outfile, mode>>
    /\ PyIdle /\ MainIdle /\ Frame /\ ClockUnread

\* lines 523-528
PyInsertInitPy ==
    /\ pc = "py_loop"
    /\ idx > Len(args)
    /\ \E clocks \in Stamps(Cardinality(dirs \ dirs_with_init_py) + 1) :
           /\ zip' = zip \o InsertInitPy(dirs \ dirs_with_init_py, clocks)
           /\ now' = LastRead(clocks)
    /\ zip_state' = "closed"
    /\ pc' = "py_read"
    /\ UNCHANGED <<ret, raised, idx, dirs, dirs_with_init_py, zip_content, outfile, mode>>
    /\ PyIdle /\ MainIdle /\ Frame

\* lines 530-531
PyReadZip ==
    /\ pc = "py_read"
    /\ zip_content' = zip
    /\ pc' = "py_write"
    /\ UNCHANGED <<ret, raised, zip, zip_state, idx, dirs, dirs_with_init_py, outfile,
                   mode>>
    /\ PyIdle /\ MainIdle /\ Frame /\ ClockUnread

\* the two writes in the other order
PyWriteArchiveFirst ==
    /\ pc = "py_write"
    /\ outfile' = <<ArchiveChunk(zip_content),
                     TextChunk(Bootstrap(options[<<"mainentry">>]))>>
    /\ pc' = "py_chmod"
    /\ UNCHANGED <<ret, raised, zip, zip_state, idx, dirs, dirs_with_init_py, zip_content,
                   mode>>
    /\ PyIdle /\ MainIdle /\ Frame /\ ClockUnread

\* lines 534-538
PyWriteBootstrap ==
    /\ pc = "py_write"
    /\ outfile' = <<TextChunk(Bootstrap(options[<<"mainentry">>])),
                     ArchiveChunk(zip_content)>>
    /\ pc' = "py_chmod"
    /\ UNCHANGED <<ret, raised, zip, zip_state, idx, dirs, dirs_with_init_py, zip_content,
                   mode>>
    /\ PyIdle /\ MainIdle /\ Frame /\ ClockUnread

\* octal 0755
ModeExecutable == 493

\* line 539 and the return to main
PyChmod ==
    /\ pc = "py_chmod"
    /\ mode' = ModeExecutable
    /\ ret' = 0
    /\ pc' = "finish"
    /\ UNCHANGED <<raised, zip, zip_state, idx, dirs, dirs_with_init_py, zip_content,
                   outfile>>
    /\ PyIdle /\ MainIdle /\ Frame /\ ClockUnread

----------------------------------------------------------------------------
(* generate_one_jar: lines 321-365. *)

OjIdle ==
    UNCHANGED <<dirs, dirs_with_init_py, zip_content, outfile, sidecar, manifest, targets,
                returncode>>

\* line 323 with no positional argument: IndexError before the archive is opened
OjNoMainJar ==
    /\ pc = "oj_open"
    /\ args = <<>>
    /\ raised' = "IndexError"
    /\ pc' = "except"
    /\ UNCHANGED <<ret, zip, zip_state, idx, jar_path_set, mode>>
    /\ OjIdle /\ MainIdle /\ Frame /\ ClockUnread

\* line 332
IsBootManifest(member) == EndsWith(Lower(member), <<"manifest", ".mf">>)

\* lines 331-334: the bootstrap entries copied, and their names claimed
RECURSIVE BootLoop(_, _, _, _)
BootLoop(st, bootjar, names, clocks) ==
    IF names = <<>> THEN st
    ELSE LET member == Head(names)
             copied == ~IsBootManifest(member)
             st1 == IF copied
                    THEN [zip |-> Append(st.zip, ZipWriteStr(member, ZipRead(bootjar, member),
                                                             Head(clocks))),
                          jar_path_set |-> st.jar_path_set \cup {member}]
                    ELSE st
         IN  BootLoop(st1, bootjar, Tail(names), IF copied THEN Tail(clocks) ELSE clocks)

\* lines 323-335
OjCopyBoot ==
    /\ pc = "oj_open"
    /\ args # <<>>
    /\ LET names == NameList(options[<<"bootjar">>])
           boot(clocks) == BootLoop([zip |-> <<>>, jar_path_set |-> {}],
                                    options[<<"bootjar">>], names, clocks)
       IN  \E clocks \in Stamps(Len(boot(Steady(Len(names))).zip)) :
               /\ zip' = boot(clocks).zip
               /\ jar_path_set' = boot(clocks).jar_path_set
               /\ now' = LastRead(clocks)
    /\ zip_state' = "open"
    /\ mode' = Created(mode)
    /\ pc' = "oj_nested"
    /\ UNCHANGED <<ret, raised, idx>>
    /\ OjIdle /\ MainIdle /\ Frame

\* lines 338-342: the nested copies of the main archive and of each dependency
NestedJars(main_jar, jars) ==
    <<ZipWrite(main_jar, PathJoin(<<"main">>, Basename(main_jar)))>>
    \o [k \in 1..Len(jars) |-> ZipWrite(jars[k], PathJoin(<<"lib">>, Basename(jars[k])))]

\* lines 338-342
OjNested ==
    /\ pc = "oj_nested"
    /\ zip' = zip \o NestedJars(Head(args), Tail(args))
    /\ idx' = 1
    /\ pc' = "oj_flatten"
    /\ UNCHANGED <<ret, raised, zip_state, jar_path_set, mode>>
    /\ OjIdle /\ MainIdle /\ Frame /\ ClockUnread

\* line 349
IsSkippedResource(member) ==
    EndsWith(member, <<".class">>) \/ StartsWith(Upper(member), <<"META-INF">>)

\* lines 348-353: the resources of one archive flattened into the root
RECURSIVE FlattenLoop(_, _, _, _)
FlattenLoop(st, jar, names, clocks) ==
    IF names = <<>> THEN st
    ELSE LET member == Head(names)
             copied == ~IsSkippedResource(member) /\ member \notin st.jar_path_set
             st1 == IF copied
                    THEN [zip |-> Append(st.zip, ZipWriteStr(member, ZipRead(jar, member),
                                                             Head(clocks))),
                          jar_path_set |-> st.jar_path_set \cup {member}]
                    ELSE st
         IN  FlattenLoop(st1, jar, Tail(names), IF copied THEN Tail(clocks) ELSE clocks)

\* lines 345-354, one archive of [main_jar] + jars
OjFlatten ==
    /\ pc = "oj_flatten"
    /\ idx <= Len(args)
    /\ LET names == NameList(args[idx])
           flat(clocks) == FlattenLoop([zip |-> zip, jar_path_set |-> jar_path_set],
                                       args[idx], names, clocks)
       IN  \E clocks \in Stamps(Len(flat(Steady(Len(names))).zip) - Len(zip)) :
               /\ zip' = flat(clocks).zip
               /\ jar_path_set' = flat(clocks).jar_path_set
               /\ now' = LastRead(clocks)
    /\ idx' = idx + 1
    /\ UNCHANGED <<pc, ret, raised, zip_state, mode>>
    /\ OjIdle /\ MainIdle /\ Frame

JarManifestName == PathJoin(<<"META-INF">>, <<"MANIFEST", ".MF">>)

\* lines 359-364
JarManifest(main_class) ==
    <<"Manifest-Version: 1.0\n", "Main-Class: com.simontuffs.onejar.Boot\n",
      "One-Jar-Main-Class: ">> \o main_class \o <<"\n", "\n">>

\* lines 356-365 and the return to main
OjManifest ==
    /\ pc = "oj_flatten"
    /\ idx > Len(args)
    /\ \E clocks \in Stamps(1) :
           /\ zip' = Append(zip, ZipWriteStr(JarManifestName,
                                             JarManifest(options[<<"main_class">>]),
                                             clocks[1]))
           /\ now' = LastRead(clocks)
    /\ zip_state' = "closed"
    /\ ret' = 0
    /\ pc' = "finish"
    /\ UNCHANGED <<raised, idx, jar_path_set, mode>>
    /\ OjIdle /\ MainIdle /\ Frame

----------------------------------------------------------------------------
(* generate_package: lines 97-151. *)

PkgIdle ==
    UNCHANGED <<dirs, dirs_with_init_py, jar_path_set, zip_content, outfile, targets,
                returncode>>

PackageManifest == <<"MANIFEST", ".TXT">>

\* the keys of _TAR_WRITE_MODES
TarWriteModes ==
    { <<"tar">>, <<"tar", ".", "gz">>, <<"tgz">>, <<"tar", ".", "bz2">>, <<"tbz">> }

\* lines 139-143 (Python 2: / on integers is floor division)
Middle(a) == (Len(a) - 1) \div 2

Sources(a) == SubSeq(a, 2, 1 + Middle(a))

Destinations(a) == SubSeq(a, 2 + Middle(a), Len(a))

\* line 138 with no positional argument
PkgNoPath ==
    /\ pc = "pkg_start"
    /\ args = <<>>
    /\ raised' = "IndexError"
    /\ pc' = "except"
    /\ UNCHANGED <<ret, zip, zip_state, idx, sidecar, manifest, mode>>
    /\ PkgIdle /\ MainIdle /\ Frame /\ ClockUnread

\* line 140 failing
PkgOddLength ==
    /\ pc = "pkg_start"
    /\ args # <<>>
    /\ (Len(args) - 1) % 2 # 0
    /\ raised' = "AssertionError"
    /\ pc' = "except"
    /\ UNCHANGED <<ret, zip, zip_state, idx, sidecar, manifest, mode>>
    /\ PkgIdle /\ MainIdle /\ Frame /\ ClockUnread

PkgOpen(next) ==
    /\ zip' = <<>>
    /\ zip_state' = "open"
    /\ manifest' = <<>>
    /\ idx' = 1
    /\ mode' = Created(mode)
    /\ pc' = next
    /\ UNCHANGED <<ret, raised, sidecar>>
    /\ PkgIdle /\ MainIdle /\ Frame /\ ClockUnread

\* the zip branch entered without the length check
PkgOpenZipUnchecked ==
    /\ pc = "pkg_start"
    /\ args # <<>>
    /\ EndsWith(args[1], <<".zip">>)
    /\ PkgOpen("pkg_zip")

\* lines 138-145 and 110
PkgOpenZip ==
    /\ pc = "pkg_start"
    /\ args # <<>>
    /\ (Len(args) - 1) % 2 = 0
    /\ EndsWith(args[1], <<".zip">>)
    /\ PkgOpen("pkg_zip")

\* lines 146-151 and 126-127: some key of the table ends the path
PkgOpenTar ==
    /\ pc = "pkg_start"
    /\ args # <<>>
    /\ (Len(args) - 1) % 2 = 0
    /\ ~EndsWith(args[1], <<".zip">>)
    /\ \E ext \in TarWriteModes : EndsWith(args[1], ext)
    /\ PkgOpen("pkg_tar")

\* lines 146-151: no key ends the path, suffix is read unbound
PkgNoSuffix ==
    /\ pc = "pkg_start"
    /\ args # <<>>
    /\ (Len(args) - 1) % 2 = 0
    /\ ~EndsWith(args[1], <<".zip">>)
    /\ \A ext \in TarWriteModes : ~EndsWith(args[1], ext)
    /\ raised' = "UnboundLocalError"
    /\ pc' = "except"
    /\ UNCHANGED <<ret, zip, zip_state, idx, sidecar, manifest, mode>>
    /\ PkgIdle /\ MainIdle /\ Frame /\ ClockUnread

\* the two fields of a manifest line the other way round
ManifestLineSwapped(source, destination) == destination \o <<" ">> \o Md5sumFile(source)

\* line 105: '%s %s' % (digest, destination)
ManifestLine(source, destination) == Md5sumFile(source) \o <<" ">> \o destination

\* lines 103-105, one source; zip.write and tar.add store the file alike
PkgAddSource ==
    /\ pc \in {"pkg_zip", "pkg_tar"}
    /\ idx <= Len(Sources(args))
    /\ Sources(args)[idx] \in ExistingFiles
    /\ zip' = Append(zip, ZipWrite(Sources(args)[idx], Destinations(args)[idx]))
    /\ manifest' = Append(manifest,
                          ManifestLine(Sources(args)[idx], Destinations(args)[idx]))
    /\ idx' = idx + 1
    /\ UNCHANGED <<pc, ret, raised, zip_state, sidecar, mode>>
    /\ PkgIdle /\ MainIdle /\ Frame /\ ClockUnread

\* line 104 on a source that does not exist
PkgMissingSource ==
    /\ pc \in {"pkg_zip", "pkg_tar"}
    /\ idx <= Len(Sources(args))
    /\ Sources(args)[idx] \notin ExistingFiles
    /\ raised' = "OSError"
    /\ pc' = "except"
    /\ UNCHANGED <<ret, zip, zip_state, idx, sidecar, manifest, mode>>
    /\ PkgIdle /\ MainIdle /\ Frame /\ ClockUnread

\* line 112
ZipManifestText(lines) == JoinWith(lines, <<"\n">>) \o <<"\n">>

\* line 131
TarManifestText(lines) == JoinWith(lines, <<"\n">>) \o <<"\n", "\n">>

\* lines 112-113 and the return to main
PkgZipManifest ==
    /\ pc = "pkg_zip"
    /\ idx > Len(Sources(args))
    /\ \E clocks \in Stamps(1) :
           /\ zip' = Append(zip, ZipWriteStr(PackageManifest, ZipManifestText(manifest),
                                             clocks[1]))
           /\ now' = LastRead(clocks)
    /\ zip_state' = "closed"
    /\ ret' = 0
    /\ pc' = "finish"
    /\ UNCHANGED <<raised, idx, sidecar, manifest, mode>>
    /\ PkgIdle /\ MainIdle /\ Frame

\* lines 129-134 and the return to main
PkgTarManifest ==
    /\ pc = "pkg_tar"
    /\ idx > Len(Sources(args))
    /\ sidecar' = [path |-> args[1] \o <<".MANIFEST">>, data |-> TarManifestText(manifest)]
    /\ \E clocks \in Stamps(1) :
           /\ zip' = Append(zip, [name |-> PackageManifest,
                                  data |-> TarManifestText(manifest),
                                  date |-> [src |-> "clock", t |-> clocks[1]]])
           /\ now' = LastRead(clocks)
    /\ zip_state' = "closed"
    /\ ret' = 0
    /\ pc' = "finish"
    /\ UNCHANGED <<raised, idx, manifest, mode>>
    /\ PkgIdle /\ MainIdle /\ Frame

----------------------------------------------------------------------------
(* The other generators of the tool table.  Each writes its files in one   *)
(* go, so each runs as one step: the whole function, or the part of it     *)
(* before the statement that raises.  generate_java_jar waits for a child  *)
(* process and runs in steps: the copy, the child, the return.             *)

\* what a step of these generators leaves alone: the archive state of the
\* composers, and the status of a child process unless the step ends one
ComposerIdle ==
    UNCHANGED <<zip, zip_state, idx, dirs, dirs_with_init_py, jar_path_set, zip_content,
                sidecar, manifest, returncode>>

\* a statement of the tool raising exc before any file is opened for writing
Raise(exc) ==
    /\ raised' = exc
    /\ pc' = "except"
    /\ UNCHANGED <<ret, outfile, mode, targets>>
    /\ ComposerIdle /\ MainIdle /\ Frame /\ ClockUnread

\* the output path written with chunks and left with mode m, the tool returning None
WriteOutput(chunks, m) ==
    /\ outfile' = chunks
    /\ mode' = m
    /\ ret' = 0
    /\ pc' = "finish"
    /\ UNCHANGED <<raised, targets>>
    /\ ComposerIdle /\ MainIdle /\ Frame

\* os.path.abspath, the working directory being /cwd
Abspath(p) == IF StartsWith(p, <<"/">>) THEN p ELSE PathJoin(<<"/", "cwd">>, p)

\* the position of the first path of paths that does not exist, 0 if all exist
FirstMissing(paths) ==
    IF \E k \in 1..Len(paths) : paths[k] \notin ExistingFiles
    THEN CHOOSE k \in 1..Len(paths) :
             paths[k] \notin ExistingFiles /\ \A j \in 1..(k - 1) : paths[j] \in ExistingFiles
    ELSE 0

(* generate_scm: lines 71-94. *)

\* lines 75-94: the raw string keeps its leading backslash, so dedent finds
\* no common indentation and removes none; getpass.getuser() gives "user" and
\* socket.gethostname() gives "host"
ScmText(version, profile, asctime, compiler) ==
    <<"\\\n                /* This file was generated by blade */\n",
      "                extern \"C\" {\n",
      "                namespace binary_version {\n",
      "                extern const int kSvnInfoCount = 1;\n",
      "                extern const char* const kSvnInfo[] = {\"">> \o version \o
    <<"\\n\"};\n",
      "                extern const int kScmInfoCount = 1;\n",
      "                extern const char* const kScmInfo[] = {\"">> \o version \o
    <<"\\n\"};\n",
      "                extern const char kBuildType[] = \"">> \o profile \o
    <<"\";\n                extern const char kBuildTime[] = \"">> \o asctime \o
    <<"\";\n                extern const char kBuilderName[] = \"">> \o <<"user">> \o
    <<"\";\n                extern const char kHostName[] = \"">> \o <<"host">> \o
    <<"\";\n                extern const char kCompiler[] = \"">> \o compiler \o
    <<"\";\n                }}">>

\* lines 73-94, time.asctime() read at clocks[1]
ScmWrite ==
    /\ pc = "scm"
    /\ \E clocks \in Stamps(1) :
           /\ WriteOutput(
                  <<TextChunk(ScmText(options[<<"url">>] \o <<"@">> \o options[<<"revision">>],
                                      options[<<"profile">>], <<"asctime:", ToString(clocks[1])>>,
                                      options[<<"compiler">>]))>>,
                  Created(mode))
           /\ now' = LastRead(clocks)

(* generate_securecc_object: lines 154-162. *)

\* line 155 with other than two arguments
ScoBadArgs ==
    /\ pc = "securecc_object"
    /\ Len(args) # 2
    /\ Raise("ValueError")

\* the bytes of obj, <<>> if os.path.exists(obj) is false
ObjContent ==
    IF mode # 0 THEN outfile
    ELSE IF args[1] \in ExistingFiles THEN <<TextChunk(ReadFile(args[1]))>> ELSE <<>>

\* lines 157, 160: the phony object cannot be read
ScoMissingPhony ==
    /\ pc = "securecc_object"
    /\ Len(args) = 2
    /\ args[2] \notin ExistingFiles
    /\ Raise("IOError")

\* lines 156-157 and 161-162: shutil.copy, the bytes and the permission bits
ScoCopy ==
    /\ pc = "securecc_object"
    /\ Len(args) = 2
    /\ args[2] \in ExistingFiles
    /\ ObjContent # <<TextChunk(ReadFile(args[2]))>>
    /\ WriteOutput(<<TextChunk(ReadFile(args[2]))>>, ModeCreated)
    /\ ClockUnread

\* lines 159-161 with equal digests
ScoUpToDate ==
    /\ pc = "securecc_object"
    /\ Len(args) = 2
    /\ args[2] \in ExistingFiles
    /\ ObjContent = <<TextChunk(ReadFile(args[2]))>>
    /\ ret' = 0
    /\ pc' = "finish"
    /\ UNCHANGED <<raised, outfile, mode, targets>>
    /\ ComposerIdle /\ MainIdle /\ Frame /\ ClockUnread

(* generate_resource_index: lines 165-224. *)

\* blade_util.regular_variable_name: , - / . + * become _
regular_variable_name(s) ==
    LET regular(t) ==
            CASE t \in {",", "-", "/", ".", "+", "*"} -> "_"
              [] t = ".py"  -> "_py"
              [] t = ".txt" -> "_txt"
              [] t = ".jar" -> "_jar"
              [] OTHER      -> t
    IN  [k \in 1..Len(s) |-> regular(s[k])]

RECURSIVE Concat(_)
Concat(parts) == IF parts = <<>> THEN <<>> ELSE Head(parts) \o Concat(Tail(parts))

\* _generate_resource_index, lines 165-217: what it leaves in the header and
\* in the source file after the first n sources; whole tells whether it
\* reached lines 205-217
ResourceFiles(header, source, sources, name_, path, n, whole) ==
    LET \* lines 169-171
        full_name  == regular_variable_name(PathJoin(path, name_))
        guard_name == <<"BLADE_RESOURCE_">> \o Upper(full_name) \o <<"_H_">>
        index_name == <<"RESOURCE_INDEX_">> \o full_name
        \* os.path.getsize, as text
        size(s) == <<"size-of:">> \o s
        \* lines 173-189
        hhead ==
            <<"// This file was automatically generated by blade\n", "#ifndef ">>
            \o guard_name \o <<"\n", "#define ">> \o guard_name \o
            <<"\n\n#ifdef __cplusplus\nextern \"C\" {\n#endif\n\n",
              "#ifndef BLADE_RESOURCE_TYPE_DEFINED\n#define BLADE_RESOURCE_TYPE_DEFINED\n",
              "struct BladeResourceEntry {\n    const char* name;\n    const char* data;\n",
              "    unsigned int size;\n};\n#endif">>
        \* lines 190-194
        chead ==
            <<"// This file was automatically generated by blade\n", "#include \"">>
            \o header \o <<"\"\n\nconst struct BladeResourceEntry ">> \o index_name
            \o <<"[] = {">>
        \* lines 197-202, one source
        hentry(s) ==
            <<"// ">> \o RelPath(s, path) \o
            <<"\n", "extern const char RESOURCE_">> \o regular_variable_name(s) \o <<"[">>
            \o size(s) \o <<"];\n", "extern const unsigned RESOURCE_">> \o
            regular_variable_name(s) \o <<"_len;\n">>
        \* lines 197-203, one source
        centry(s) ==
            <<"    { \"">> \o RelPath(s, path) \o <<"\", RESOURCE_">> \o
            regular_variable_name(s) \o <<", ">> \o size(s) \o <<" },\n">>
        \* lines 205-207
        ctail ==
            <<"};\n", "const unsigned ">> \o index_name \o
            <<"_len = ", ToString(Len(sources)), ";">>
        \* lines 208-217
        htail ==
            <<"// Resource index\n", "extern const struct BladeResourceEntry ">>
            \o index_name \o <<"[];\n", "extern const unsigned ">> \o index_name \o
            <<"_len;\n\n#ifdef __cplusplus\n}  // extern \"C\"\n#endif\n\n#endif  // ">>
            \o guard_name
        h == hhead \o Concat([k \in 1..n |-> hentry(sources[k])])
             \o (IF whole THEN htail ELSE <<>>)
        c == chead \o Concat([k \in 1..n |-> centry(sources[k])])
             \o (IF whole THEN ctail ELSE <<>>)
    IN  DictSet(DictSet(targets, header, h), source, c)

\* lines 221-222 with fewer than four arguments
RiTooFewArgs ==
    /\ pc = "resource_index"
    /\ Len(args) < 4
    /\ Raise("IndexError")

\* lines 221-224 and 167-217
RiWrite ==
    /\ pc = "resource_index"
    /\ Len(args) >= 4
    /\ FirstMissing(SubSeq(args, 5, Len(args))) = 0
    /\ targets' = ResourceFiles(args[3], args[4], SubSeq(args, 5, Len(args)), args[1],
                                args[2], Len(args) - 4, TRUE)
    /\ ret' = 0
    /\ pc' = "finish"
    /\ UNCHANGED <<raised, outfile, mode>>
    /\ ComposerIdle /\ MainIdle /\ Frame /\ ClockUnread

\* line 199 raising for a source that does not exist: both files keep what
\* the sources before it gave
RiMissingSource ==
    /\ pc = "resource_index"
    /\ Len(args) >= 4
    /\ FirstMissing(SubSeq(args, 5, Len(args))) # 0
    /\ targets' = ResourceFiles(args[3], args[4], SubSeq(args, 5, Len(args)), args[1],
                                args[2], FirstMissing(SubSeq(args, 5, Len(args))) - 1,
                                FALSE)
    /\ raised' = "OSError"
    /\ pc' = "except"
    /\ UNCHANGED <<ret, outfile, mode>>
    /\ ComposerIdle /\ MainIdle /\ Frame /\ ClockUnread

(* generate_java_jar: lines 227-254. *)

\* what blade_util.shell returns: 0 when the command succeeded
ShellResults == {0, 1}

\* lines 229 and 243-246, the words of the command joined by a blank
JarCommand(jar, option, target, resources) ==
    LET \* target.replace('.jar', '.resources')
        resources_dir ==
            [k \in 1..Len(target) |-> IF target[k] = ".jar" THEN ".resources" ELSE target[k]]
        word(resource) ==
            <<" ", "-C '">> \o resources_dir \o <<"' '">>
            \o RelPath(resource, resources_dir) \o <<"'">>
    IN  jar \o <<" ", option, " ">> \o target
        \o Concat([k \in 1..Len(resources) |-> word(resources[k])])

\* lines 228-230 with fewer than three arguments
JjTooFewArgs ==
    /\ pc = "java_jar"
    /\ Len(args) < 3
    /\ Raise("IndexError")

\* lines 231, 235-236 and 253-254: no classes archive, so archive_resources
\* is called for a new archive and blade_util.shell starts the jar command
JjArchive ==
    /\ pc = "java_jar"
    /\ Len(args) >= 3
    /\ ~EndsWith(args[3], <<"__classes__", ".jar">>)
    /\ pc' = "java_jar_shell"
    /\ UNCHANGED <<ret, raised, outfile, mode, targets>>
    /\ ComposerIdle /\ MainIdle /\ Frame /\ ClockUnread

\* line 250 on a classes archive that does not exist
JjMissingClasses ==
    /\ pc = "java_jar"
    /\ Len(args) >= 3
    /\ EndsWith(args[3], <<"__classes__", ".jar">>)
    /\ args[3] \notin ExistingFiles
    /\ Raise("IOError")

\* lines 249-252: shutil.copy2 writes the target; without resources the tool
\* returns None, with resources archive_resources is called to update the
\* copy and blade_util.shell starts the jar command
JjCopyClasses ==
    /\ pc = "java_jar"
    /\ Len(args) >= 3
    /\ EndsWith(args[3], <<"__classes__", ".jar">>)
    /\ args[3] \in ExistingFiles
    /\ outfile' = <<TextChunk(ReadFile(args[3]))>>
    /\ mode' = ModeCreated
    /\ pc' = IF Len(args) = 3 THEN "finish" ELSE "java_jar_shell"
    /\ ret' = IF Len(args) = 3 THEN 0 ELSE ret
    /\ UNCHANGED <<raised, targets>>
    /\ ComposerIdle /\ MainIdle /\ Frame /\ ClockUnread

\* line 247, blade_util.shell waiting: the jar command runs to its end; when
\* it succeeds it has written a new archive (cf) or added the resources to
\* the copy (uf)
JjShell ==
    /\ pc = "java_jar_shell"
    /\ LET update == EndsWith(args[3], <<"__classes__", ".jar">>)
           command == IF update
                      THEN JarCommand(args[1], "uf", args[2], SubSeq(args, 4, Len(args)))
                      ELSE JarCommand(args[1], "cf", args[2], SubSeq(args, 3, Len(args)))
           written == TextChunk(<<"output-of:">> \o command)
       IN  \E r \in ShellResults :
               /\ returncode' = r
               /\ outfile' = IF r # 0 THEN outfile
                             ELSE IF update THEN outfile \o <<written>>
                             ELSE <<written>>
               /\ mode' = IF r = 0 THEN Created(mode) ELSE mode
    /\ pc' = "java_jar_return"
    /\ UNCHANGED <<ret, raised, targets>>
    /\ UNCHANGED <<zip, zip_state, idx, dirs, dirs_with_init_py, jar_path_set, zip_content,
                   sidecar, manifest>>
    /\ MainIdle /\ Frame /\ ClockUnread

\* lines 247, 252 and 254: the status handed back to main
JjReturn ==
    /\ pc = "java_jar_return"
    /\ ret' = returncode
    /\ pc' = "finish"
    /\ UNCHANGED <<raised, outfile, mode, targets>>
    /\ ComposerIdle /\ MainIdle /\ Frame /\ ClockUnread

(* generate_java_resource: lines 257-263. *)

\* lines 262-263, the first n copies
RECURSIVE Copies(_, _, _, _)
Copies(files, tgts, sources, n) ==
    IF n = 0 THEN files
    ELSE DictSet(Copies(files, tgts, sources, n - 1), tgts[n], ReadFile(sources[n]))

\* line 258 failing
JrOddLength ==
    /\ pc = "java_resource"
    /\ Len(args) % 2 # 0
    /\ Raise("AssertionError")

JrCopied(n) ==
    /\ targets' = Copies(targets, SubSeq(args, 1, Len(args) \div 2),
                         SubSeq(args, Len(args) \div 2 + 1, Len(args)), n)
    /\ UNCHANGED <<outfile, mode>>
    /\ ComposerIdle /\ MainIdle /\ Frame /\ ClockUnread

\* lines 259-263
JrCopy ==
    /\ pc = "java_resource"
    /\ Len(args) % 2 = 0
    /\ FirstMissing(SubSeq(args, Len(args) \div 2 + 1, Len(args))) = 0
    /\ JrCopied(Len(args) \div 2)
    /\ ret' = 0
    /\ pc' = "finish"
    /\ UNCHANGED raised

\* line 263 on a source that does not exist, the copies before it made
JrMissingSource ==
    /\ pc = "java_resource"
    /\ Len(args) % 2 = 0
    /\ FirstMissing(SubSeq(args, Len(args) \div 2 + 1, Len(args))) # 0
    /\ JrCopied(FirstMissing(SubSeq(args, Len(args) \div 2 + 1, Len(args))) - 1)
    /\ raised' = "IOError"
    /\ pc' = "except"
    /\ UNCHANGED ret

(* generate_java_test and generate_scala_test: lines 266-311 and 387-409. *)

\* lines 266-280
_get_all_test_class_names_in_jar(jar) ==
    LET \* lines 274-276
        is_test_class(member) ==
            LET basename == Basename(member)
            IN  /\ EndsWith(basename, <<"Test", ".class">>)
                /\ Len(basename) > Len(<<"Test", ".class">>)
                /\ \A k \in 1..Len(basename) : basename[k] # "$"
        \* line 277: name.replace('/', '.')[:-6]
        class_name(member) ==
            [k \in 1..(Len(member) - 1) |-> IF member[k] = "/" THEN "." ELSE member[k]]
        members == SelectSeq(NameList(jar), is_test_class)
    IN  [k \in 1..Len(members) |-> class_name(members[k])]

\* lines 283-292
_jacoco_test_coverage_flag(jacocoagent, packages_under_test) ==
    IF packages_under_test # <<>> /\ jacocoagent # <<>>
    THEN LET nonempty(p) == p # <<>>
             pattern(p) == p \o <<".*">>
             packages == SelectSeq(Split(packages_under_test, ":"), nonempty)
         IN  <<"-javaagent:">> \o Abspath(jacocoagent) \o <<"=", "includes=">>
             \o JoinWith([k \in 1..Len(packages) |-> pattern(packages[k])], <<":">>) \o <<",", "output=file">>
    ELSE <<>>

\* lines 301-310
JavaTestText(coverage_flags, jars, main_class, test_classes) ==
    <<"#!/bin/sh\n# Auto generated wrapper shell script by blade\n\n",
      "if [ -n \"$BLADE_COVERAGE\" ]; then\n    coverage_options=\"">> \o coverage_flags \o
    <<"\"\nfi\n\nexec java $coverage_options -classpath ">> \o JoinWith(jars, <<":">>) \o
    <<" ">> \o main_class \o <<" ">> \o test_classes \o <<" $@">>

\* lines 398-407
ScalaTestText(java_args, java, scala, jars, run_args) ==
    <<"#!/bin/sh\n# Auto generated wrapper shell script by blade\n\n",
      "if [ -n \"$BLADE_COVERAGE\" ]; then\n    coverage_options=\"">> \o java_args \o
    <<"\"\nfi\n\nJAVACMD=">> \o java \o <<" exec ">> \o scala \o
    <<" \"$coverage_options\" -classpath ">> \o JoinWith(jars, <<":">>) \o <<" ">> \o
    run_args \o <<" $@\n">>

\* lines 297 and 389 with no archive given
TestNoJar ==
    /\ pc \in {"java_test", "scala_test"}
    /\ args = <<>>
    /\ Raise("IndexError")

\* line 269 on a test archive that does not exist, or is no archive
TestBadJar ==
    /\ pc \in {"java_test", "scala_test"}
    /\ args # <<>>
    /\ args[1] \notin Archives
    /\ Raise(IF args[1] \in ExistingFiles THEN "BadZipfile" ELSE "IOError")

\* lines 296-311
JtWrite ==
    /\ pc = "java_test"
    /\ args # <<>>
    /\ args[1] \in Archives
    /\ WriteOutput(
           <<TextChunk(JavaTestText(
                 _jacoco_test_coverage_flag(options[<<"jacocoagent">>],
                                            options[<<"packages_under_test">>]),
                 args, options[<<"main_class">>],
                 JoinWith(_get_all_test_class_names_in_jar(args[1]), <<" ">>)))>>,
           ModeExecutable)
    /\ ClockUnread

\* lines 388-409
SctWrite ==
    /\ pc = "scala_test"
    /\ args # <<>>
    /\ args[1] \in Archives
    /\ LET coverage_flags ==
               _jacoco_test_coverage_flag(options[<<"jacocoagent">>],
                                          options[<<"packages_under_test">>])
           java_args == IF coverage_flags # <<>> THEN <<"-J">> \o coverage_flags ELSE <<>>
           run_args == <<"org.scalatest.run ">>
                       \o JoinWith(_get_all_test_class_names_in_jar(args[1]), <<" ">>)
       IN  WriteOutput(<<TextChunk(ScalaTestText(java_args, Abspath(options[<<"java">>]),
                                                 Abspath(options[<<"scala">>]), args,
                                                 run_args))>>,
                       ModeExecutable)
    /\ ClockUnread

(* generate_fat_jar: lines 314-318. *)

\* line 315 with no argument
FjNoArgs ==
    /\ pc = "java_fatjar"
    /\ args = <<>>
    /\ Raise("IndexError")

\* fatjar.generate_fat_jar: the archives merged into the output path
FatJar(jars) == TextChunk(<<"fatjar-of:">> \o JoinWith(jars, <<" ">>))

\* lines 315-318
FjWrite ==
    /\ pc = "java_fatjar"
    /\ args # <<>>
    /\ WriteOutput(<<FatJar(Tail(args))>>, Created(mode))
    /\ ClockUnread

(* generate_java_binary: lines 368-384. *)

\* line 369 with other than two arguments
JbBadArgs ==
    /\ pc = "java_binary"
    /\ Len(args) # 2
    /\ Raise("ValueError")

\* lines 373-383; "<backquote>" stands for the backquote character, which a
\* string of this language cannot hold
JavaBinaryText(basename, fullpath) ==
    <<"#!/bin/sh\n# Auto generated wrapper shell script by blade\n\n",
      "jar=", "<backquote>", "dirname \"$0\"", "<backquote>", "/\"">> \o basename \o
    <<"\"\nif [ ! -f \"$jar\" ]; then\n  jar=\"">> \o fullpath \o
    <<"\"\nfi\n\nexec java -jar \"$jar\" $@\n">>

\* lines 369-384
JbWrite ==
    /\ pc = "java_binary"
    /\ Len(args) = 2
    /\ WriteOutput(<<TextChunk(JavaBinaryText(Basename(args[2]), Abspath(args[2])))>>,
                   ModeExecutable)
    /\ ClockUnread

(* generate_shell_test and generate_shell_testdata: lines 412-437. *)

\* lines 413 and 429 with no argument
ShellNoArgs ==
    /\ pc \in {"shell_test", "shell_testdata"}
    /\ args = <<>>
    /\ Raise("IndexError")

\* lines 416-424
ShellTestText(scripts) ==
    LET dot(s) == <<". ">> \o Abspath(s)
    IN  <<"#!/bin/sh\n# Auto generated wrapper shell script by blade\n\nset -e\n\n">>
        \o JoinWith([k \in 1..Len(scripts) |-> dot(scripts[k])], <<"\n">>) \o <<"\n\n">>

\* lines 413-425
ShtWrite ==
    /\ pc = "shell_test"
    /\ args # <<>>
    /\ WriteOutput(<<TextChunk(ShellTestText(Tail(args)))>>, ModeExecutable)
    /\ ClockUnread

\* line 431 failing
StdOddLength ==
    /\ pc = "shell_testdata"
    /\ args # <<>>
    /\ (Len(args) - 1) % 2 # 0
    /\ Raise("AssertionError")

\* lines 436-437
ShellTestdataText(sources, destinations) ==
    Concat([k \in 1..Len(sources) |->
               Abspath(sources[k]) \o <<" ">> \o destinations[k] \o <<"\n">>])

\* lines 429-437
StdWrite ==
    /\ pc = "shell_testdata"
    /\ args # <<>>
    /\ (Len(args) - 1) % 2 = 0
    /\ WriteOutput(<<TextChunk(ShellTestdataText(Sources(args), Destinations(args)))>>,
                   Created(mode))
    /\ ClockUnread

(* generate_python_library: lines 440-449. *)

\* line 443 on a source that does not exist
PlMissingSource ==
    /\ pc = "python_library"
    /\ FirstMissing(args) # 0
    /\ Raise("IOError")

\* lines 446-449: str() of the dict, its keys in the order Python 2 keeps them
PylibText(basedir, sources) ==
    LET pair(py) == <<"('">> \o py \o <<"', '">> \o Md5sumFile(py) \o <<"')">>
    IN  <<"{'srcs': [">> \o JoinWith([k \in 1..Len(sources) |-> pair(sources[k])], <<", ">>)
        \o <<"], 'base_dir': '">> \o basedir \o <<"'}", "\n">>

\* lines 441-449
PlWrite ==
    /\ pc = "python_library"
    /\ FirstMissing(args) = 0
    /\ WriteOutput(<<TextChunk(PylibText(options[<<"basedir">>], args))>>, Created(mode))
    /\ ClockUnread

----------------------------------------------------------------------------
(* The orchestrator: one invocation, then the same invocation once more. *)

NoSidecar == [path |-> <<>>, data |-> <<>>]

Outcome == [zip |-> zip, outfile |-> outfile, mode |-> mode, exit_code |-> exit_code]

Fresh ==
    /\ pc = "main"
    /\ name = <<>>
    /\ options = EmptyDict
    /\ args = <<>>
    /\ ret = 0
    /\ raised = "none"
    /\ log = <<>>
    /\ stderr = <<>>
    /\ exit_code = -1
    /\ zip = <<>>
    /\ zip_state = "none"
    /\ idx = 0
    /\ dirs = {}
    /\ dirs_with_init_py = {}
    /\ jar_path_set = {}
    /\ zip_content = <<>>
    /\ outfile = NoFile
    /\ mode = 0
    /\ sidecar = NoSidecar
    /\ manifest = <<>>
    /\ targets = EmptyDict
    /\ returncode = -1

Init ==
    /\ argv \in CmdLines
    /\ now = 0
    /\ run = 1
    /\ prev = [zip |-> <<>>, outfile |-> NoFile, mode |-> 0, exit_code |-> -1]
    /\ Fresh

\* the same command line again, at the same or at a later time; what the
\* first invocation left on disk is still there
Rerun ==
    /\ pc = "exit"
    /\ run = 1
    /\ run' = 2
    /\ prev' = Outcome
    /\ now' \in now..MaxClock
    /\ pc' = "main"
    /\ name' = <<>>
    /\ options' = EmptyDict
    /\ args' = <<>>
    /\ ret' = 0
    /\ raised' = "none"
    /\ log' = <<>>
    /\ stderr' = <<>>
    /\ exit_code' = -1
    /\ zip_state' = "none"
    /\ idx' = 0
    /\ dirs' = {}
    /\ dirs_with_init_py' = {}
    /\ jar_path_set' = {}
    /\ zip_content' = <<>>
    /\ manifest' = <<>>
    /\ returncode' = -1
    /\ UNCHANGED <<argv, zip, outfile, mode, sidecar, targets>>

Next ==
    \/ MainMissingName \/ MainUnknownTool \/ MainBadKeywords \/ MainCallTool
    \/ MainExcept \/ MainExit
    \/ PyOpen \/ PyAddPylib \/ PyAddEgg \/ PyAddWhl \/ PyUnknownType
    \/ PyInsertInitPy \/ PyReadZip \/ PyWriteBootstrap \/ PyChmod
    \/ OjNoMainJar \/ OjCopyBoot \/ OjNested \/ OjFlatten \/ OjManifest
    \/ PkgNoPath \/ PkgOddLength \/ PkgOpenZip \/ PkgOpenTar \/ PkgNoSuffix
    \/ PkgAddSource \/ PkgMissingSource \/ PkgZipManifest \/ PkgTarManifest
    \/ ScmWrite
    \/ ScoBadArgs \/ ScoMissingPhony \/ ScoCopy \/ ScoUpToDate
    \/ RiTooFewArgs \/ RiWrite \/ RiMissingSource
    \/ JjTooFewArgs \/ JjArchive \/ JjMissingClasses \/ JjCopyClasses \/ JjShell
    \/ JjReturn
    \/ JrOddLength \/ JrCopy \/ JrMissingSource
    \/ TestNoJar \/ TestBadJar \/ JtWrite \/ SctWrite
    \/ FjNoArgs \/ FjWrite
    \/ JbBadArgs \/ JbWrite
    \/ ShellNoArgs \/ ShtWrite \/ StdOddLength \/ StdWrite
    \/ PlMissingSource \/ PlWrite
    \/ Rerun

Spec == Init /\ [][Next]_vars

----------------------------------------------------------------------------
(* Vocabulary of the properties. *)

PythonBinary == <<"python_binary">>

OneJar == <<"java_onejar">>

Package == <<"package">>

Succeeded(tool) == pc = "exit" /\ name = tool /\ exit_code = 0

\* the archive part of the finished python binary
PyArchive == outfile[Len(outfile)].entries

\* what one source, taken alone, puts into the python binary (the stamps of
\* its entries aside)
Contribution(arg) ==
    LET empty == [zip |-> <<>>, dirs |-> {}, dirs_with_init_py |-> {}]
        steady == Steady(Len(NameList(arg)))
    IN  IF EndsWith(arg, <<".pylib">>) THEN _pybin_add_pylib(empty, arg, Exclusions).zip
        ELSE IF EndsWith(arg, <<".egg">>)
             THEN _pybin_add_egg(empty, arg, Exclusions, steady).zip
        ELSE IF EndsWith(arg, <<".whl">>)
             THEN _pybin_add_whl(empty, arg, Exclusions, steady).zip
        ELSE <<>>

\* names and contents of a list of entries, in order
Undated(entries) == [k \in 1..Len(entries) |-> <<entries[k].name, entries[k].data>>]

DataOf(entries, n) == entries[CHOOSE k \in 1..Len(entries) : entries[k].name = n].data

\* the directories an entry name lies under, read off the name itself
ProperAncestors(n) == {SubSeq(n, 1, k - 1) : k \in {j \in 1..Len(n) : n[j] = "/"}}

MarkerOf(dir) == IF dir = <<>> THEN InitPy ELSE dir \o <<"/">> \o InitPy

Unrecognized(arg) ==
    ~EndsWith(arg, <<".pylib">>) /\ ~EndsWith(arg, <<".egg">>) /\ ~EndsWith(arg, <<".whl">>)

\* str.splitlines()
Lines(text) ==
    LET parts == Split(text, "\n")
    IN  IF parts[Len(parts)] = <<>> THEN SubSeq(parts, 1, Len(parts) - 1) ELSE parts

----------------------------------------------------------------------------
(* C1 *)

\* C1: when an earlier and a different later source of generate_python_binary both
\* contribute a non-excluded entry named x, the finished archive holds exactly
\* one entry named x, and it carries the earlier source's content.
C1_FirstWinsDedup ==
    Succeeded(PythonBinary) =>
        \A a \in 1..Len(args) : \A b \in (a + 1)..Len(args) :
            args[a] # args[b] =>
                \A n \in Names(Contribution(args[a])) \cap Names(Contribution(args[b])) :
                    /\ Count(PyArchive, n) = 1
                    /\ DataOf(PyArchive, n) = DataOf(Contribution(args[a]), n)

----------------------------------------------------------------------------
(* C2 *)

\* C2 as stated: after a successful generate_python_binary, every directory
\* above any entry of the archive, and the root, holds an __init__.py entry,
\* whatever mix of .pylib, .egg and .whl the entries came from.
C2_MarkerLawAllSources ==
    Succeeded(PythonBinary) =>
        \A k \in 1..Len(PyArchive) :
            \A d \in ProperAncestors(PyArchive[k].name) \cup {<<>>} :
                MarkerOf(d) \in Names(PyArchive)

\* C2 as amended: after a successful generate_python_binary, every directory
\* above an entry written from a .pylib or a .whl source, and the root, holds
\* an __init__.py entry (directories that only .egg entries lie in are not
\* recorded and get no synthesized marker).
C2_MarkerLawTrackedSources ==
    Succeeded(PythonBinary) =>
        /\ InitPy \in Names(PyArchive)
        /\ \A a \in 1..Len(args) :
               (EndsWith(args[a], <<".pylib">>) \/ EndsWith(args[a], <<".whl">>)) =>
                   \A n \in Names(Contribution(args[a])) : \A d \in ProperAncestors(n) :
                       MarkerOf(d) \in Names(PyArchive)

\* a finished binary whose wheel entry wpkg/sub/w.py got synthesized markers
\* in both directories above it, next to an egg package left without one
C2_Witness ==
    /\ Succeeded(PythonBinary)
    /\ <<"wpkg", "/", "sub", "/", "w", ".py">> \in Names(PyArchive)
    /\ \E k \in 1..Len(PyArchive) :
           PyArchive[k].name = <<"wpkg", "/", "__init__", ".py">> /\ PyArchive[k].data = <<>>
    /\ \E k \in 1..Len(PyArchive) :
           /\ PyArchive[k].name = <<"wpkg", "/", "sub", "/", "__init__", ".py">>
           /\ PyArchive[k].data = <<>>
    /\ <<"epkg", "/", "e", ".py">> \in Names(PyArchive)

----------------------------------------------------------------------------
(* C3 and C4 *)

\* the archives of generate_one_jar in order of precedence
JarOrder == <<options[<<"bootjar">>]>> \o args

\* the members an archive offers to the root of the output: everything but its
\* own manifest for the bootstrap loader, everything for the others
Offers(k) ==
    LET all == {NameList(JarOrder[k])[j] : j \in 1..Len(NameList(JarOrder[k]))}
    IN  IF k = 1 THEN {n \in all : ~IsBootManifest(n)} ELSE all

IsResourceName(n) ==
    ~EndsWith(n, <<".class">>) /\ ~StartsWith(Upper(n), <<"META-INF", "/">>)

FirstHolder(n) ==
    JarOrder[CHOOSE k \in 1..Len(JarOrder) :
                 n \in Offers(k) /\ \A j \in 1..(k - 1) : n \notin Offers(j)]

\* C3: every resource name (not a .class, not under META-INF) found in the
\* bootstrap, main or dependency archives appears exactly once in the output
\* of generate_one_jar, with the content of the first archive holding it.
C3_ResourcePrecedence ==
    Succeeded(OneJar) =>
        \A k \in 1..Len(JarOrder) : \A n \in Offers(k) :
            IsResourceName(n) =>
                /\ Count(zip, n) = 1
                /\ DataOf(zip, n) = ZipRead(FirstHolder(n), n)

\* C4: no two entries of a finished generate_one_jar output share a name.
C4_UniqueEntryNames ==
    Succeeded(OneJar) => \A n \in Names(zip) : Count(zip, n) = 1

----------------------------------------------------------------------------
(* C5 *)

\* the text of the MANIFEST.TXT entry, the last one written
ManifestText == zip[Len(zip)].data

\* the manifest lines the sources call for, from the command line alone
WantedLines ==
    [k \in 1..Len(Sources(args)) |->
        Md5sumFile(Sources(args)[k]) \o <<" ">> \o Destinations(args)[k]]

SourcesStored ==
    /\ Len(zip) = Len(Sources(args)) + 1
    /\ zip[Len(zip)].name = PackageManifest
    /\ \A k \in 1..Len(Sources(args)) :
           /\ zip[k].name = Destinations(args)[k]
           /\ zip[k].data = ReadFile(Sources(args)[k])

IsZipMode == EndsWith(args[1], <<".zip">>)

\* C5 as stated: after a successful generate_package of n >= 1 sources, in zip
\* and in tar mode, MANIFEST.TXT has exactly n lines, the i-th being
\* '<digest of source[i]> <destination[i]>', and source[i] is stored under
\* destination[i].
C5_ManifestHasExactlyNLines ==
    (Succeeded(Package) /\ Len(Sources(args)) >= 1) =>
        SourcesStored /\ Lines(ManifestText) = WantedLines

\* C5 as amended: after a successful generate_package of n sources, source[i]
\* is stored under destination[i] and MANIFEST.TXT starts with the n lines
\* '<digest of source[i]> <destination[i]>' in input order; nothing but empty
\* lines follows them: none in zip mode and one in tar mode when n > 0, one in
\* zip mode and two in tar mode when n = 0.
C5_ManifestLinesThenBlank ==
    Succeeded(Package) =>
        LET n == Len(Sources(args))
            extra == (IF IsZipMode THEN 0 ELSE 1) + (IF n = 0 THEN 1 ELSE 0)
        IN  /\ SourcesStored
            /\ Len(Lines(ManifestText)) = n + extra
            /\ SubSeq(Lines(ManifestText), 1, n) = WantedLines
            /\ \A k \in (n + 1)..(n + extra) : Lines(ManifestText)[k] = <<>>

\* a finished tar package of two sources, its manifest also left beside it
C5_Witness ==
    /\ Succeeded(Package)
    /\ ~IsZipMode
    /\ Len(Sources(args)) = 2
    /\ Sources(args)[1] # Sources(args)[2]
    /\ sidecar.data = ManifestText

----------------------------------------------------------------------------
(* C6 *)

FirstUnrecognized ==
    CHOOSE k \in 1..Len(args) :
        Unrecognized(args[k]) /\ \A j \in 1..(k - 1) : ~Unrecognized(args[j])

\* the entries of the sources before position k, in order
RECURSIVE ContributionsBefore(_)
ContributionsBefore(k) ==
    IF k <= 1 THEN <<>> ELSE ContributionsBefore(k - 1) \o Contribution(args[k - 1])

\* C6: when some source of generate_python_binary ends with none of .pylib,
\* .egg, .whl, no source after the first such argument is processed: the
\* archive being written holds the entries of the sources before the loop
\* position, which never passes that argument, and what is on disk never
\* holds more than the sources before that argument gave.  No __init__.py is
\* synthesized, the tool never closes or reads back the archive (it is only
\* finalized when the failed process exits), the prologue is never written,
\* the output is never made executable, and the process exits non-zero.
C6_UnknownTypeIsFatal ==
    (name = PythonBinary /\ \E k \in 1..Len(args) : Unrecognized(args[k])) =>
        /\ idx <= FirstUnrecognized
        /\ zip_state # "none" => Undated(zip) = Undated(ContributionsBefore(idx))
        /\ \E k \in 1..FirstUnrecognized : Undated(zip) = Undated(ContributionsBefore(k))
        /\ zip_state = "closed" => pc = "exit"
        /\ pc \notin {"py_read", "py_write", "py_chmod"}
        /\ zip_content = <<>>
        /\ outfile = NoFile
        /\ mode # ModeExecutable
        /\ pc = "finish" => ret # 0
        /\ pc = "exit" => exit_code # 0

\* an invocation that wrote one library, met an unknown source before another
\* library, and exited with code 1
C6_Witness ==
    /\ pc = "exit"
    /\ name = PythonBinary
    /\ Len(args) = 3
    /\ Unrecognized(args[2])
    /\ ~Unrecognized(args[3])
    /\ raised = "AssertionError"
    /\ zip # <<>>
    /\ exit_code = 1

----------------------------------------------------------------------------
(* C7 *)

OddLength == args # <<>> /\ (Len(args) - 1) % 2 = 1

\* C7: when the list after the output path of generate_package has odd
\* length, no archive is opened, no source is added, no manifest is written
\* and the invocation fails; the zip and tar writers only run on even lists.
C7_OddLengthAborts ==
    name = Package =>
        /\ OddLength =>
               /\ zip_state = "none"
               /\ zip = <<>>
               /\ manifest = <<>>
               /\ sidecar = NoSidecar
               /\ pc = "finish" => ret # 0
               /\ pc = "exit" => exit_code # 0
        /\ pc \in {"pkg_zip", "pkg_tar"} => ~OddLength

\* a zip package asked for with three words after the path, refused
C7_Witness ==
    /\ pc = "exit"
    /\ name = Package
    /\ Len(args) = 4
    /\ IsZipMode
    /\ args[2] \in ExistingFiles
    /\ raised = "AssertionError"
    /\ exit_code = 1

----------------------------------------------------------------------------
(* C8 *)

\* the output path still holds what the first invocation left there
Leftover == run = 2 /\ pc = "py_open"

\* C8: generate_python_binary reads the archive back only once it is closed
\* with the root __init__.py as its last entry, adds no entry afterwards,
\* writes the prologue naming the entry point and then exactly the bytes read,
\* and calls chmod only after both are written: the file is in its two-part
\* form when the chmod step is reached, and an output path that was absent
\* when the invocation started is executable only once the run has finished.
\* (A path left by an earlier run keeps its 0755 while it is rewritten.)
C8_BootstrapPrepended ==
    name = PythonBinary =>
        /\ pc \in {"py_read", "py_write", "py_chmod"} =>
               /\ zip_state = "closed"
               /\ zip # <<>>
               /\ zip[Len(zip)].name = InitPy
        /\ pc \in {"py_write", "py_chmod"} => zip_content = zip
        /\ outfile # NoFile =>
               /\ pc \in {"py_chmod", "finish", "exit"} \/ Leftover
               /\ Len(outfile) = 2
               /\ outfile[1].kind = "text"
               /\ outfile[1].text[1] = "#!/bin/sh\n\n"
               /\ Contains(outfile[1].text, options[<<"mainentry">>])
               /\ outfile[2].kind = "archive"
               /\ outfile[2].entries = zip
               /\ zip_state = "closed" \/ Leftover
        /\ pc = "py_chmod" => outfile # NoFile
        /\ (run = 1 /\ mode = ModeExecutable) =>
               outfile # NoFile /\ pc \in {"finish", "exit"}
        /\ (pc \in {"finish", "exit"} /\ raised = "none") =>
               outfile # NoFile /\ mode = ModeExecutable

\* a finished executable built from a library and a wheel
C8_Witness ==
    /\ Succeeded(PythonBinary)
    /\ Len(args) = 2
    /\ mode = ModeExecutable
    /\ Len(outfile[2].entries) > 3

----------------------------------------------------------------------------
(* C9 *)

\* C9 as stated: an operation that neither raises nor returns non-zero exits
\* with code 0; every failure, a missing operation name included, exits
\* non-zero after the failure was logged with the operation name and trace.
C9_EveryFailureLogged ==
    pc = "exit" =>
        /\ (raised = "none" /\ ret = 0) => exit_code = 0
        /\ raised # "none" =>
               /\ exit_code # 0
               /\ \E k \in 1..Len(log) : log[k].tool = name /\ log[k].trace

\* C9 as amended: an operation that neither raises nor returns non-zero exits
\* with code 0 and nothing logged; an operation that returns non-zero without
\* raising (only generate_java_jar, handing on the status of the jar command)
\* exits with that value and nothing logged by main; a failure raised once
\* the operation name is read (unknown name, malformed arguments, assertion or
\* I/O failure) exits with code 1 after console.error logged it once with the
\* operation name and trace; a missing operation name raises outside the try
\* block, so the process exits non-zero with the interpreter's traceback and
\* no log record.
C9_FailuresInsideTryLogged ==
    pc = "exit" =>
        /\ (raised = "none" /\ ret = 0) => (exit_code = 0 /\ log = <<>> /\ stderr = <<>>)
        /\ (raised = "none" /\ ret # 0) =>
               /\ exit_code = ret
               /\ name = <<"java_jar">> /\ ret = returncode
               /\ log = <<>> /\ stderr = <<>>
        /\ (raised # "none" /\ Len(argv) >= 2) =>
               /\ exit_code = 1
               /\ log = <<[tool |-> argv[2], error |-> raised, trace |-> TRUE]>>
               /\ stderr = <<>>
        /\ Len(argv) < 2 =>
               /\ exit_code = 1
               /\ log = <<>>
               /\ stderr = <<"IndexError">>

\* an unknown operation name, logged and answered with exit code 1
C9_Witness ==
    /\ pc = "exit"
    /\ raised = "KeyError"
    /\ name = <<"bogus">>
    /\ Len(log) = 1
    /\ exit_code = 1

----------------------------------------------------------------------------
(* C10 *)

\* C10: a second run of generate_python_binary or generate_one_jar on the same
\* command line and the same input files leaves the same output as the first,
\* entry for entry with names, contents and written metadata, whenever it runs.
C10_RepeatableOutput ==
    (run = 2 /\ pc = "exit" /\ name \in {PythonBinary, OneJar} /\ exit_code = 0) =>
        /\ prev.exit_code = 0
        /\ zip = prev.zip
        /\ outfile = prev.outfile
        /\ mode = prev.mode

----------------------------------------------------------------------------
(* C11 *)

\* how many entries of the finished python binary the sources wrote; the
\* entries after them are the synthesized __init__.py markers
SourceEntryCount == Len(ContributionsBefore(Len(args) + 1))

\* C11: in a finished generate_python_binary archive, no synthesized empty
\* __init__.py, the root's included, has the name of an entry that a .pylib,
\* .egg or .whl source wrote: markers are synthesized only where none exists.
C11_MarkersOnlyFillGaps ==
    Succeeded(PythonBinary) =>
        \A k \in (SourceEntryCount + 1)..Len(PyArchive) :
            \A j \in 1..SourceEntryCount : PyArchive[j].name # PyArchive[k].name

====
